---- MODULE Spec2Model ----
(***************************************************************************)
(* PyUmi: the UmiPy client facade, in its two versions                     *)
(*   umipy/api.py       (class UmiPy with is_testnet / is_legend)          *)
(*   umipy/__init__.py  (class UmiPy with base_url)                        *)
(* Byte strings are sequences of 0..255, Python strings are sequences of   *)
(* code points, base64 text is a sequence of alphabet indices 0..63 with   *)
(* 64 standing for the pad character '='.                                  *)
(***************************************************************************)
EXTENDS Integers, Sequences, FiniteSets, TLC

None == "None"

\* Outcomes of a call: a returned value or a raised exception.
Ok(v) == [ok |-> TRUE, val |-> v]
Raise(e) == [ok |-> FALSE, exc |-> e]

(***************************************************************************)
(* Bounds of the model.                                                    *)
(***************************************************************************)
\* Longest message string, in code points.
MaxLen == 1
\* Number of key pairs (and of entropy values a wallet is generated from).
NumKeys == 2
\* Number of network calls that may be pending at once.
MaxPending == 1
\* Width in bits of the minor-unit amount field (u64 in the wire format;
\* scaled to what TLC's integers hold).
AmountBits == 8

KeyIds == 1..NumKeys

\* Code points of the message alphabet: U+0001, 'a', U+00E9 (two UTF-8 bytes).
Chars == {1, 97, 233}

RECURSIVE StringsUpTo(_)
StringsUpTo(n) ==
    IF n = 0 THEN {<<>>}
    ELSE LET shorter == StringsUpTo(n - 1)
         IN  shorter \cup {Append(s, c) : s \in {t \in shorter : Len(t) = n - 1}, c \in Chars}

Messages == StringsUpTo(MaxLen)

(***************************************************************************)
(* str.encode() / bytes.decode(): UTF-8.                                   *)
(***************************************************************************)
EncodeCodePoint(c) ==
    IF c < 128 THEN <<c>>
    ELSE IF c < 2048 THEN <<192 + (c \div 64), 128 + (c % 64)>>
    ELSE IF c < 65536
         THEN <<224 + (c \div 4096), 128 + ((c \div 64) % 64), 128 + (c % 64)>>
         ELSE <<240 + (c \div 262144), 128 + ((c \div 4096) % 64),
                128 + ((c \div 64) % 64), 128 + (c % 64)>>

RECURSIVE str_encode(_)
str_encode(s) ==
    IF s = <<>> THEN <<>> ELSE EncodeCodePoint(Head(s)) \o str_encode(Tail(s))

IsCont(b) == b \in 128..191

\* The code point and byte count of the UTF-8 sequence b starts with, or
\* n = 0 when b starts with no valid sequence (strict decoding).
FirstCodePoint(b) ==
    LET b1 == b[1]
        n  == Len(b)
    IN  IF b1 < 128 THEN [n |-> 1, cp |-> b1]
        ELSE IF b1 \in 194..223 /\ n >= 2 /\ IsCont(b[2])
             THEN [n |-> 2, cp |-> (b1 - 192) * 64 + (b[2] - 128)]
        ELSE IF b1 \in 224..239 /\ n >= 3 /\ IsCont(b[2]) /\ IsCont(b[3])
             THEN LET cp == (b1 - 224) * 4096 + (b[2] - 128) * 64 + (b[3] - 128)
                  IN  IF cp >= 2048 /\ cp \notin 55296..57343
                      THEN [n |-> 3, cp |-> cp] ELSE [n |-> 0, cp |-> 0]
        ELSE IF b1 \in 240..244 /\ n >= 4 /\ IsCont(b[2]) /\ IsCont(b[3]) /\ IsCont(b[4])
             THEN LET cp == (b1 - 240) * 262144 + (b[2] - 128) * 4096
                            + (b[3] - 128) * 64 + (b[4] - 128)
                  IN  IF cp \in 65536..1114111
                      THEN [n |-> 4, cp |-> cp] ELSE [n |-> 0, cp |-> 0]
        ELSE [n |-> 0, cp |-> 0]

RECURSIVE bytes_decode(_)
bytes_decode(b) ==
    IF b = <<>> THEN Ok(<<>>)
    ELSE LET f == FirstCodePoint(b)
         IN  IF f.n = 0 THEN Raise("UnicodeDecodeError")
             ELSE LET rest == bytes_decode(SubSeq(b, f.n + 1, Len(b)))
                  IN  IF rest.ok THEN Ok(<<f.cp>> \o rest.val) ELSE rest

(***************************************************************************)
(* base64.b64encode / base64.b64decode (binascii, non-strict mode).        *)
(***************************************************************************)
Pad == 64

\* binascii.b2a_base64: three bytes make four characters, the last group
\* is padded.
b64encode(b) ==
    LET n == Len(b)
        At(j) == IF j <= n THEN b[j] ELSE 0
    IN  [i \in 1..(4 * ((n + 2) \div 3)) |->
            LET g == 3 * ((i - 1) \div 4)
                r == (i - 1) % 4
            IN  IF r = 0 THEN At(g + 1) \div 4
                ELSE IF r = 1 THEN (At(g + 1) % 4) * 16 + (At(g + 2) \div 16)
                ELSE IF r = 2
                     THEN IF g + 2 > n THEN Pad
                          ELSE (At(g + 2) % 16) * 4 + (At(g + 3) \div 64)
                ELSE IF g + 3 > n THEN Pad ELSE At(g + 3) % 64]

\* binascii.a2b_base64: data characters are taken four at a time; a pad
\* character met at position 2 or 3 of a group that completes the group ends
\* the parse, any other pad character is skipped; a group left incomplete at
\* the end of the text is an error.
b64decode(t) ==
    LET IsData(x) == x # Pad
        DataBefore(i) == Cardinality({j \in 1..(i - 1) : IsData(t[j])})
        PadRun(i) == Cardinality({j \in 1..i : \A l \in j..i : t[l] = Pad})
        Ends == {i \in 1..Len(t) :
                    /\ t[i] = Pad
                    /\ (DataBefore(i) % 4) >= 2
                    /\ (DataBefore(i) % 4) + PadRun(i) >= 4}
        end == IF Ends = {} THEN Len(t) + 1
               ELSE CHOOSE i \in Ends : \A j \in Ends : i <= j
        d == SelectSeq(SubSeq(t, 1, end - 1), IsData)
        rem == Len(d) % 4
        n == 3 * (Len(d) \div 4) + (IF rem = 0 THEN 0 ELSE rem - 1)
    IN  IF Ends = {} /\ rem # 0 THEN Raise("binascii.Error")
        ELSE Ok([j \in 1..n |->
                    LET a == 4 * ((j - 1) \div 3) + 1
                        r == (j - 1) % 3
                    IN  IF r = 0 THEN d[a] * 4 + (d[a + 1] \div 16)
                        ELSE IF r = 1 THEN (d[a + 1] % 16) * 16 + (d[a + 2] \div 4)
                        ELSE (d[a + 2] % 4) * 64 + d[a + 3]])

(***************************************************************************)
(* Keys, addresses, wallets, transfers: umipy.generate_wallet and          *)
(* umipy.transfer.  A key pair is identified by the entropy it was derived *)
(* from; key 0 is a public key whose private key nobody holds.             *)
(***************************************************************************)
PrivateKey(k) == [sk |-> k]
PublicKey(k) == [pk |-> k]

Prefixes == {"umi", "glz"}

PrefixNo(p) == IF p = "umi" THEN 1 ELSE IF p = "glz" THEN 2 ELSE 0

\* The checksum over prefix and payload.
Checksum(p, payload) == (PrefixNo(p) * 7 + payload * 3 + 5) % 32

\* encode(public_key, prefix): the address of a public key.
AddressOf(p, public_key) ==
    [prefix |-> p, payload |-> public_key.pk, sum |-> Checksum(p, public_key.pk)]

\* An address of the right shape whose checksum does not match.
BadAddress(p, k) == [prefix |-> p, payload |-> k, sum |-> (Checksum(p, k) + 1) % 32]

\* decode(address): prefix and payload, or InvalidAddressError.
decode(address) ==
    IF address.prefix \notin Prefixes \/ address.sum # Checksum(address.prefix, address.payload)
    THEN Raise("InvalidAddressError")
    ELSE Ok(<<address.prefix, address.payload>>)

to_public_key(address) ==
    LET d == decode(address)
    IN  IF d.ok THEN Ok(PublicKey(d.val[2])) ELSE d

MnemonicOf(e) == <<"phrase", e>>

\* A phrase that fails the wordlist/checksum validation.
BadMnemonic == <<"phrase", 0>>

Mnemonics == {MnemonicOf(e) : e \in KeyIds} \cup {BadMnemonic}

\* umipy.generate_wallet.generate_wallet(prefix), on the entropy it drew.
generate_wallet(prefix, entropy) ==
    <<AddressOf(prefix, PublicKey(entropy)), MnemonicOf(entropy),
      PublicKey(entropy), PrivateKey(entropy)>>

\* umipy.generate_wallet.restore_wallet(mnemonic, prefix).
restore_wallet(mnemonic, prefix) ==
    IF mnemonic[2] \notin KeyIds
    THEN Raise("InvalidMnemonicError")
    ELSE Ok(generate_wallet(prefix, mnemonic[2]))

\* Largest amount the minor-unit field holds.
MaxAmount == 2 ^ AmountBits - 1

\* Amounts of a transfer, in minor units (hundredths of the display unit).
Amounts == {-1, 0, 1, MaxAmount, MaxAmount + 1}

\* build_and_sign: decode the addresses, build the unsigned record, sign it.
\* The signed transaction is <<version, sender, recipient, amount, signer>>;
\* steps lists the stages that ran, in order.
BuildAndSign(private_key, sender, to_address, amount, version) ==
    LET to == decode(to_address)
    IN  IF ~sender.ok THEN [out |-> sender, steps |-> <<"decode">>]
        ELSE IF ~to.ok THEN [out |-> to, steps |-> <<"decode">>]
        ELSE IF amount < 1 \/ amount > MaxAmount
             THEN [out |-> Raise("InvalidAmountError"), steps |-> <<"decode", "build">>]
        ELSE [out |-> Ok(<<version, sender.val, to.val, amount, private_key.sk>>),
              steps |-> <<"decode", "build", "sign">>]

\* umipy.transfer.transfer_addresses
transfer_addresses(private_key, from_address, to_address, amount, send_version) ==
    BuildAndSign(private_key, decode(from_address), to_address, amount, send_version)

\* umipy.transfer.transfer_coins
transfer_coins(public_key, private_key, target_address, amount, prefix) ==
    BuildAndSign(private_key, Ok(<<prefix, public_key.pk>>), target_address, amount, "current")

(***************************************************************************)
(* nacl.bindings.crypto_sign / crypto_sign_open: ed25519, idealised.  The  *)
(* signature of a message under a key is one fixed 64-byte string,         *)
(* different for every (key, message) with a message of at most 61 bytes,  *)
(* and it is the only string that verifies.  Its last byte is below 16, as *)
(* the top byte of S is.                                                   *)
(***************************************************************************)
crypto_sign_BYTES == 64

Detached(m, k) ==
    [i \in 1..crypto_sign_BYTES |->
        IF i = 1 THEN k % 256
        ELSE IF i = 2 THEN Len(m) % 256
        ELSE IF i = crypto_sign_BYTES THEN k % 16
        ELSE IF i - 2 <= Len(m) THEN (m[i - 2] + 31 * i + 7 * k) % 256
        ELSE (7 * i + 3 * k) % 256]

\* crypto_sign(message, sk): the signature followed by the message.
crypto_sign(message, sk) == Detached(message, sk.sk) \o message

\* crypto_sign_open(signed, pk): the message, or BadSignatureError.
crypto_sign_open(signed, pk) ==
    IF Len(signed) < crypto_sign_BYTES THEN Raise("BadSignatureError")
    ELSE LET m == SubSeq(signed, crypto_sign_BYTES + 1, Len(signed))
         IN  IF pk.pk \in KeyIds /\ SubSeq(signed, 1, crypto_sign_BYTES) = Detached(m, pk.pk)
             THEN Ok(m)
             ELSE Raise("BadSignatureError")

\* Python's s[:stop].
SliceTo(s, stop) ==
    LET e == IF stop < 0 THEN (IF Len(s) + stop < 0 THEN 0 ELSE Len(s) + stop)
             ELSE (IF stop > Len(s) THEN Len(s) ELSE stop)
    IN  SubSeq(s, 1, e)

(***************************************************************************)
(* UmiPy.sign_message / UmiPy.sign_verify (the same code in both files).   *)
(***************************************************************************)
sign_message(private_key, message) ==
    LET encoded_message == str_encode(message)
        result == crypto_sign(encoded_message, private_key)
    IN  b64encode(SliceTo(result, 0 - Len(encoded_message)))

\* sign_verify without its try/except: a bad signature raises.
sign_verify_uncaught(signature, original_message, address) ==
    LET public_key == to_public_key(address)
        decoded == b64decode(signature)
    IN  IF ~public_key.ok THEN public_key
        ELSE IF ~decoded.ok THEN decoded
        ELSE LET base64_sig == decoded.val \o str_encode(original_message)
                 result == crypto_sign_open(base64_sig, public_key.val)
             IN  IF ~result.ok THEN result
                 ELSE LET text == bytes_decode(result.val)
                      IN  IF ~text.ok THEN text
                          ELSE Ok(text.val = original_message)

\* sign_verify returning True as soon as crypto_sign_open succeeds, without
\* comparing the opened message with original_message.
sign_verify_uncompared(signature, original_message, address) ==
    LET public_key == to_public_key(address)
        decoded == b64decode(signature)
    IN  IF ~public_key.ok THEN public_key
        ELSE IF ~decoded.ok THEN decoded
        ELSE LET base64_sig == decoded.val \o str_encode(original_message)
                 result == crypto_sign_open(base64_sig, public_key.val)
             IN  Ok(result.ok)

sign_verify(signature, original_message, address) ==
    LET public_key == to_public_key(address)
        decoded == b64decode(signature)
    IN  IF ~public_key.ok THEN public_key
        ELSE IF ~decoded.ok THEN decoded
        ELSE LET base64_sig == decoded.val \o str_encode(original_message)
                 result == crypto_sign_open(base64_sig, public_key.val)
             IN  IF ~result.ok THEN Ok(FALSE)
                 ELSE LET text == bytes_decode(result.val)
                      IN  IF ~text.ok THEN text
                          ELSE Ok(text.val = original_message)

(***************************************************************************)
(* The clients.  The state holds one instance of each class: "api" is an   *)
(* umipy.api.UmiPy, "init" an umipy.UmiPy (umipy/__init__.py).             *)
(*   clients    the fields of the two instances                            *)
(*   pending    the network calls suspended at an await, each with the     *)
(*              requests it issued and the responses it received           *)
(*   last       the call that ended last: its arguments, its requests and  *)
(*              its outcome                                                *)
(*   remembered one earlier restore_wallet call, kept by its caller         *)
(*   channel    the signature text on its way to a verifier                *)
(***************************************************************************)
VARIABLES clients, pending, last, remembered, channel

vars == <<clients, pending, last, remembered, channel>>

ClientIds == {"api", "init"}

BASE_URL == "BASE_URL"

\* umipy.helpers.get_api_urls(is_testnet, is_legend): base URL and stats URL.
get_api_urls(is_testnet, is_legend) ==
    <<[host |-> "node", testnet |-> is_testnet, legend |-> is_legend],
      [host |-> "stats", testnet |-> is_testnet, legend |-> is_legend]>>

\* umipy.helpers.get_send_version(is_legend)
get_send_version(is_legend) == IF is_legend THEN "legend" ELSE "current"

\* umipy.api.UmiPy.__init__
ApiInit(session, is_testnet, is_legend) ==
    LET urls == get_api_urls(is_testnet, is_legend)
    IN  [is_legend |-> is_legend,
         base_url |-> urls[1],
         stats_url |-> urls[2],
         send_version |-> get_send_version(is_legend),
         session |-> session]

\* umipy.UmiPy.__init__: a session of its own when none is given.
PkgInit(session, base_url) ==
    [base_url |-> base_url,
     session |-> IF session = None THEN "own session" ELSE session]

\* base_stats_url without its is_legend check.
base_stats_url_unguarded(self) == Ok(self.stats_url)

\* umipy.api.UmiPy.base_stats_url (property)
base_stats_url(self) ==
    IF self.is_legend THEN Raise("AttributeError") ELSE Ok(self.stats_url)

\* The arguments umipy.UmiPy is constructed with: the defaults, or a session
\* and a base URL of the caller's.
PkgArguments == {<<None, BASE_URL>>, <<"session", "custom url">>}

NoCall == [op |-> "none", c |-> None, args |-> <<>>, pc |-> "done", reqs |-> <<>>,
           resps |-> <<>>, steps |-> <<>>, outcome |-> Ok(None)]

\* The record of a facade call that touches no network.
Local(op, c, args, outcome) ==
    [op |-> op, c |-> c, args |-> args, pc |-> "done", reqs |-> <<>>,
     resps |-> <<>>, steps |-> <<>>, outcome |-> outcome]

Init ==
    /\ clients \in {[api |-> ApiInit("session", t, l), init |-> PkgInit(a[1], a[2])] :
                        t \in BOOLEAN, l \in BOOLEAN, a \in PkgArguments}
    /\ pending = <<>>
    /\ last = NoCall
    /\ remembered = NoCall
    /\ channel = <<>>

WalletResponse(w) ==
    [address |-> w[1], mnemonic |-> w[2],
     keys |-> [public_key |-> w[3], private_key |-> w[4], key_type |-> "banan bebi"]]

\* UmiPy.generate_wallet, on the entropy the generator draws.
UmiPy_generate_wallet(c) ==
    \E prefix \in Prefixes, entropy \in KeyIds :
        /\ last' = Local("generate_wallet", c, <<prefix>>,
                         Ok(WalletResponse(generate_wallet(prefix, entropy))))
        /\ UNCHANGED <<clients, pending, remembered, channel>>

\* What UmiPy.restore_wallet returns or raises.
RestoreOutcome(self, mnemonic, prefix) ==
    LET w == restore_wallet(mnemonic, prefix)
    IN  IF w.ok THEN Ok(WalletResponse(w.val)) ELSE w

\* restore_wallet calling generate_wallet, which draws fresh entropy.
UmiPy_restore_wallet_generating(c) ==
    \E mnemonic \in Mnemonics, prefix \in Prefixes, entropy \in KeyIds :
        /\ last' = Local("restore_wallet", c, <<mnemonic, prefix>>,
                         Ok(WalletResponse(generate_wallet(prefix, entropy))))
        /\ UNCHANGED <<clients, pending, remembered, channel>>

\* UmiPy.restore_wallet
UmiPy_restore_wallet(c) ==
    \E mnemonic \in Mnemonics, prefix \in Prefixes :
        /\ last' = Local("restore_wallet", c, <<mnemonic, prefix>>,
                         RestoreOutcome(clients[c], mnemonic, prefix))
        /\ UNCHANGED <<clients, pending, remembered, channel>>

\* The caller keeps the wallet a restore_wallet call returned.
Remember ==
    /\ last.op = "restore_wallet"
    /\ remembered.op = "none"
    /\ remembered' = last
    /\ UNCHANGED <<clients, pending, last, channel>>

\* UmiPy.sign_message, on a key and a message of the given sets; the
\* signature text returned is sent to the verifier.
UmiPy_sign_message(c, keys, msgs) ==
    \E k \in keys, message \in msgs :
        LET signature == sign_message(PrivateKey(k), message)
        IN  /\ last' = Local("sign_message", c, <<PrivateKey(k), message>>, Ok(signature))
            /\ channel' = signature
            /\ UNCHANGED <<clients, pending, remembered>>

\* sign_verify asking the node about the address before it verifies.
UmiPy_sign_verify_asking(c, msgs, addresses) ==
    \E original_message \in msgs, address \in addresses :
        /\ last' = Local("sign_verify", c, <<channel, original_message, address>>,
                         sign_verify(channel, original_message, address))
        /\ pending' = Append(pending,
                             [op |-> "get_balance", c |-> c, args |-> <<address>>,
                              pc |-> "get_balance",
                              reqs |-> <<[method |-> "GET", base |-> clients[c].base_url,
                                          path |-> "/api/addresses/{address}/account",
                                          params |-> None, json |-> None]>>,
                              resps |-> <<>>, steps |-> <<>>])
        /\ UNCHANGED <<clients, remembered, channel>>

\* UmiPy.sign_verify, on the signature text received.
UmiPy_sign_verify(c, msgs, addresses) ==
    \E original_message \in msgs, address \in addresses :
        /\ last' = Local("sign_verify", c, <<channel, original_message, address>>,
                         sign_verify(channel, original_message, address))
        /\ UNCHANGED <<clients, pending, remembered, channel>>

(***************************************************************************)
(* The sender of a signature is not trusted: the text that reaches         *)
(* sign_verify may be the signature altered, or one made with another key. *)
(***************************************************************************)
\* Bytes an attacker appends to a signature: not UTF-8, 'a', U+0001.
ExtraBytes == {<<255>>, <<97>>, <<1>>}

\* The positions at which a byte of a signature is changed: the first and
\* last bytes of R and of S, and the bytes next to them.
ChangedAt == {1, 2, 3, 4, 32, 33, 63, 64}

\* b with its i-th byte changed.
ChangeByte(b, i) == [b EXCEPT ![i] = (b[i] + 1) % 256]

\* The signature text s altered: one byte changed, cut short, or extended.
Altered(s) ==
    LET b == b64decode(s).val
    IN  {b64encode(ChangeByte(b, i)) : i \in ChangedAt \cap 1..Len(b)}
        \cup {b64encode(SubSeq(b, 1, Len(b) - 1)) : x \in {1} \cap 1..Len(b)}
        \cup {b64encode(b \o x) : x \in ExtraBytes}

\* Signature texts made with key k for the message bytes m: the signature
\* of x \o m followed by x; the signature of m without its first byte, cut
\* by one byte; and a text that is not base64.
Forged(k, m) ==
    {b64encode(Detached(x \o m, k) \o x) : x \in ExtraBytes \cup {<<>>}}
    \cup {b64encode(SubSeq(Detached(Tail(m), k), 1, crypto_sign_BYTES - 1)) :
            x \in {1} \cap 1..Len(m)}
    \cup {<<0>>}

\* The signature sign_message returned last is altered on its way.
TamperSignature ==
    /\ last.op = "sign_message"
    /\ channel' \in Altered(last.outcome.val)
    /\ UNCHANGED <<clients, pending, last, remembered>>

\* A signature made with the attacker's own key is sent in its place.
ForgeSignature ==
    /\ last.op = "sign_message"
    /\ \E k \in KeyIds, message \in Messages :
          channel' \in Forged(k, str_encode(message))
    /\ UNCHANGED <<clients, pending, last, remembered>>

\* The addresses a signature is verified against.
VerifyAddresses ==
    {AddressOf("umi", PublicKey(k)) : k \in 0..NumKeys}
    \cup {AddressOf("glz", PublicKey(1)), BadAddress("umi", 1)}

InitSign ==
    /\ Init
    /\ clients.api = ApiInit("session", FALSE, FALSE)
    /\ clients.init = PkgInit(None, BASE_URL)

NextSign ==
    \/ \E c \in ClientIds : UmiPy_sign_message(c, KeyIds, Messages)
    \/ \E c \in ClientIds : UmiPy_sign_verify(c, Messages, VerifyAddresses)
    \/ TamperSignature
    \/ ForgeSignature

\* The signing operations on every key and message, with an untrusted sender.
SpecSign == InitSign /\ [][NextSign]_vars

(***************************************************************************)
(* The network operations.  A call runs to its first await, where it has   *)
(* issued a request and waits in pending; each response of the server      *)
(* resumes it.                                                             *)
(***************************************************************************)
Request(method, base, path, params, json) ==
    [method |-> method, base |-> base, path |-> path, params |-> params, json |-> json]

\* A call suspended at the await labelled pc.
Call(op, c, args, pc, reqs, resps, steps) ==
    [op |-> op, c |-> c, args |-> args, pc |-> pc, reqs |-> reqs,
     resps |-> resps, steps |-> steps]

\* The record of a call that ended.
Ended(call, resps, outcome) ==
    [op |-> call.op, c |-> call.c, args |-> call.args, pc |-> "done",
     reqs |-> call.reqs, resps |-> resps, steps |-> call.steps, outcome |-> outcome]

Without(seq, i) == SubSeq(seq, 1, i - 1) \o SubSeq(seq, i + 1, Len(seq))

\* The call suspends: it waits for the response to the request it issued.
Suspend(call) ==
    /\ Len(pending) < MaxPending
    /\ pending' = Append(pending, call)
    /\ UNCHANGED <<clients, last, remembered, channel>>

\* The call ends without having suspended.
EndAtOnce(call, outcome) ==
    /\ last' = Ended(call, <<>>, outcome)
    /\ UNCHANGED <<clients, pending, remembered, channel>>

\* The i-th pending call ends on the response r.
EndOn(i, r, outcome) ==
    /\ last' = Ended(pending[i], Append(pending[i].resps, r), outcome)
    /\ pending' = Without(pending, i)
    /\ UNCHANGED <<clients, remembered, channel>>

\* What the node and the statistics server answer.
DataValues == {1, 2}

NodeReplies == {[error |-> "error"]} \cup {[data |-> n] : n \in DataValues}

StatsReplies ==
    {[status |-> "error", code |-> 404, data |-> None]}
    \cup {[status |-> "success", code |-> 200, limit |-> n, data |-> <<n>>] : n \in DataValues}

\* The address the queries ask about.
QueryAddress == AddressOf("umi", PublicKey(1))

\* limit and offset of a query: <<>> stands for None, <<n>> for the integer n.
Pages == {<<<<>>, <<>>>>, <<<<10>>, <<0>>>>}

\* params = {}; limit and offset are added when they are not None.
Params(limit, offset) ==
    (IF limit # <<>> THEN {<<"limit", limit[1]>>} ELSE {})
    \cup (IF offset # <<>> THEN {<<"offset", offset[1]>>} ELSE {})

\* UmiPy.request: the request it issues, to base_url + path.
UmiPy_request(self, method, path, params, data) ==
    Request(method, self.base_url, path, params, data)

\* UmiPy.get_balance up to its await.
UmiPy_get_balance(c) ==
    Suspend(Call("get_balance", c, <<QueryAddress>>, "get_balance",
                 <<UmiPy_request(clients[c], "GET", "/api/addresses/{address}/account",
                                 None, None)>>,
                 <<>>, <<>>))

\* UmiPy.get_balance from the response on.  The balance is in hundredths.
UmiPy_get_balance_resume(i) ==
    /\ pending[i].pc = "get_balance"
    /\ \E r \in NodeReplies :
          EndOn(i, r, IF "error" \in DOMAIN r
                      THEN Ok([balance |-> 0])
                      ELSE Ok([balance |-> [hundredths |-> r.data]]))

\* UmiPy.get_transactions up to its first await (the same in both files).
UmiPy_get_transactions(c) ==
    \E page \in Pages :
        Suspend(Call("get_transactions", c, <<QueryAddress, page[1], page[2]>>,
                     IF c = "api" THEN "api.get_transactions" ELSE "get_transactions",
                     <<UmiPy_request(clients[c], "GET",
                                     "/api/addresses/{address}/transactions",
                                     Params(page[1], page[2]), None)>>,
                     <<>>, <<>>))

TransactionsResponse(total_count, items) == [total_count |-> total_count, items |-> items]

\* TransactionsResponse(**response["data"])
TransactionsOf(response) ==
    IF "data" \in DOMAIN response
    THEN Ok(TransactionsResponse(response.data, <<response.data>>))
    ELSE Raise("KeyError")

\* umipy/api.py, UmiPy.get_transactions from the response on.
api_get_transactions_resume(i) ==
    /\ pending[i].pc = "api.get_transactions"
    /\ \E r \in NodeReplies :
          EndOn(i, r, IF "error" \in DOMAIN r
                      THEN Ok(TransactionsResponse(0, <<>>))
                      ELSE TransactionsOf(r))

\* umipy/__init__.py, UmiPy.get_transactions from the first response on: an
\* error ends the call, anything else is followed by a second request.
pkg_get_transactions_resume(i) ==
    /\ pending[i].pc = "get_transactions"
    /\ \E r \in NodeReplies :
          IF "error" \in DOMAIN r
          THEN EndOn(i, r, Ok(TransactionsResponse(0, <<>>)))
          ELSE /\ pending' = [pending EXCEPT ![i] =
                     [@ EXCEPT !.pc = "get_transactions again",
                               !.reqs = Append(@, UmiPy_request(clients[pending[i].c], "GET",
                                                   "/api/addresses/{address}/transactions",
                                                   Params(pending[i].args[2], pending[i].args[3]),
                                                   None)),
                               !.resps = Append(@, r)]]
               /\ UNCHANGED <<clients, last, remembered, channel>>

\* umipy/__init__.py, UmiPy.get_transactions from the second response on.
pkg_get_transactions_resume_again(i) ==
    /\ pending[i].pc = "get_transactions again"
    /\ \E r \in NodeReplies : EndOn(i, r, TransactionsOf(r))

\* A query of the statistics server (umipy/api.py): the URL is built from the
\* property base_stats_url before the request is issued.
StatsQuery(op, path) ==
    \E page \in Pages :
        LET base == base_stats_url(clients.api)
            call == Call(op, "api", <<QueryAddress, page[1], page[2]>>, op, <<>>, <<>>, <<>>)
        IN  IF ~base.ok
            THEN EndAtOnce(call, base)
            ELSE Suspend([call EXCEPT !.reqs =
                            <<Request("GET", base.val, path, Params(page[1], page[2]), None)>>])

\* The call of a statistics query from the response on.
StatsQueryResume(i, op) ==
    /\ pending[i].pc = op
    /\ \E r \in StatsReplies :
          EndOn(i, r, IF r.status = "error"
                      THEN Ok(TransactionsResponse(0, <<>>))
                      ELSE Ok(TransactionsResponse(r.limit, r.data)))

UmiPy_get_input_transactions ==
    StatsQuery("get_input_transactions", "/address/{address}/transactions/received")

UmiPy_get_input_transactions_resume(i) == StatsQueryResume(i, "get_input_transactions")

UmiPy_get_sent_transactions ==
    StatsQuery("get_sent_transactions", "/address/{address}/transactions/sended")

UmiPy_get_sent_transactions_resume(i) == StatsQueryResume(i, "get_sent_transactions")

TransactionResponse(status, code, data) == [status |-> status, code |-> code, data |-> data]

\* UmiPy.get_transaction (umipy/api.py) up to its await: on the legend chain
\* in _get_legend_transaction_from_node, otherwise on the statistics server.
UmiPy_get_transaction ==
    LET call == Call("get_transaction", "api", <<"hash">>, "get_transaction", <<>>, <<>>, <<>>)
    IN  IF clients.api.is_legend
        THEN Suspend([call EXCEPT
                        !.pc = "_get_legend_transaction_from_node",
                        !.reqs = <<Request("GET", clients.api.base_url,
                                           "/api/transactions/{transaction_hash}", None, None)>>])
        ELSE LET base == base_stats_url(clients.api)
             IN  IF ~base.ok
                 THEN EndAtOnce(call, base)
                 ELSE Suspend([call EXCEPT !.reqs =
                                 <<Request("GET", base.val, "/transactions/{transaction_hash}",
                                           None, None)>>])

\* UmiPy.get_transaction from the response of the statistics server on.
UmiPy_get_transaction_resume(i) ==
    /\ pending[i].pc = "get_transaction"
    /\ \E r \in StatsReplies : EndOn(i, r, Ok(TransactionResponse(r.status, r.code, r.data)))

\* UmiPy._get_legend_transaction_from_node from the response of the node on.
UmiPy_get_legend_transaction_from_node_resume(i) ==
    /\ pending[i].pc = "_get_legend_transaction_from_node"
    /\ \E r \in NodeReplies :
          EndOn(i, r, IF "error" \in DOMAIN r
                      THEN Ok(TransactionResponse("error", 500, None))
                      ELSE Ok(TransactionResponse("success", None, r.data)))

\* The key that sends, the addresses and amounts of a transfer.
SenderKey == CHOOSE k \in KeyIds : \A j \in KeyIds : k <= j

FromAddresses == {AddressOf("umi", PublicKey(SenderKey))}

TargetAddresses ==
    {AddressOf("umi", PublicKey(2)), BadAddress("umi", 2),
     [prefix |-> "um", payload |-> 2, sum |-> Checksum("um", 2)]}

\* A send that posts to the mempool before the transfer is built and signed.
PostTransferFirst(call, transfer) ==
    Suspend([call EXCEPT
               !.steps = <<"POST">> \o transfer.steps,
               !.reqs = <<UmiPy_request(clients[call.c], "POST", "/api/mempool", None,
                                        [data |-> transfer.out])>>])

\* A send: the transfer is built and signed, then posted to the mempool.
PostTransfer(call, transfer) ==
    IF ~transfer.out.ok
    THEN EndAtOnce([call EXCEPT !.steps = transfer.steps], transfer.out)
    ELSE Suspend([call EXCEPT
                    !.steps = Append(transfer.steps, "POST"),
                    !.reqs = <<UmiPy_request(clients[call.c], "POST", "/api/mempool", None,
                                             [data |-> transfer.out.val])>>])

\* umipy/__init__.py, UmiPy.send up to its await.
UmiPy_send ==
    \E target_address \in TargetAddresses, amount \in Amounts, prefix \in {"umi"} :
        PostTransfer(Call("send", "init",
                          <<PrivateKey(SenderKey), PublicKey(SenderKey), target_address,
                            amount, prefix>>, "send", <<>>, <<>>, <<>>),
                     transfer_coins(PublicKey(SenderKey), PrivateKey(SenderKey),
                                    target_address, amount, prefix))

\* UmiPy.send_addresses up to its await; umipy/api.py passes its send_version.
UmiPy_send_addresses(c) ==
    \E from_address \in FromAddresses, target_address \in TargetAddresses, amount \in Amounts :
        PostTransfer(Call("send_addresses", c,
                          <<PrivateKey(SenderKey), from_address, target_address, amount>>,
                          IF c = "api" THEN "api.send_addresses" ELSE "send", <<>>, <<>>, <<>>),
                     transfer_addresses(PrivateKey(SenderKey), from_address, target_address,
                                        amount,
                                        IF c = "api" THEN clients.api.send_version
                                        ELSE "current"))

\* umipy/__init__.py, UmiPy.send and UmiPy.send_addresses from the response on.
pkg_send_resume(i) ==
    /\ pending[i].pc = "send"
    /\ \E r \in NodeReplies :
          EndOn(i, r, IF "error" \in DOMAIN r THEN Ok(FALSE) ELSE Ok(r.data))

\* umipy/api.py, UmiPy.send_addresses from the response on: SendResponse(**response).
api_send_addresses_resume(i) ==
    /\ pending[i].pc = "api.send_addresses"
    /\ \E r \in NodeReplies : EndOn(i, r, Ok(r))

(***************************************************************************)
(* The specifications.                                                     *)
(***************************************************************************)
\* The keys, messages and addresses of the signing calls made while network
\* calls are pending.
FewKeys == {SenderKey}
FewMessages == {<<>>, <<97>>}
FewAddresses == {AddressOf("umi", PublicKey(SenderKey)), BadAddress("umi", SenderKey)}

Facade ==
    \/ \E c \in ClientIds : UmiPy_generate_wallet(c)
    \/ \E c \in ClientIds : UmiPy_restore_wallet(c)
    \/ \E c \in ClientIds : UmiPy_sign_message(c, FewKeys, FewMessages)
    \/ \E c \in ClientIds : UmiPy_sign_verify(c, FewMessages, FewAddresses)

Network ==
    \/ \E c \in ClientIds : UmiPy_get_balance(c)
    \/ \E i \in 1..Len(pending) : UmiPy_get_balance_resume(i)
    \/ \E c \in ClientIds : UmiPy_get_transactions(c)
    \/ \E i \in 1..Len(pending) : api_get_transactions_resume(i)
    \/ \E i \in 1..Len(pending) : pkg_get_transactions_resume(i)
    \/ \E i \in 1..Len(pending) : pkg_get_transactions_resume_again(i)
    \/ UmiPy_get_input_transactions
    \/ \E i \in 1..Len(pending) : UmiPy_get_input_transactions_resume(i)
    \/ UmiPy_get_sent_transactions
    \/ \E i \in 1..Len(pending) : UmiPy_get_sent_transactions_resume(i)
    \/ UmiPy_get_transaction
    \/ \E i \in 1..Len(pending) : UmiPy_get_transaction_resume(i)
    \/ \E i \in 1..Len(pending) : UmiPy_get_legend_transaction_from_node_resume(i)
    \/ UmiPy_send
    \/ \E c \in ClientIds : UmiPy_send_addresses(c)
    \/ \E i \in 1..Len(pending) : pkg_send_resume(i)
    \/ \E i \in 1..Len(pending) : api_send_addresses_resume(i)

Next == Facade \/ Network

\* The two clients with every operation.
Spec == Init /\ [][Next]_vars

NextWallet ==
    \/ \E c \in ClientIds : UmiPy_generate_wallet(c)
    \/ \E c \in ClientIds : UmiPy_restore_wallet(c)
    \/ Remember
    \/ \E c \in ClientIds : UmiPy_sign_message(c, FewKeys, FewMessages)
    \/ \E c \in ClientIds : UmiPy_get_balance(c)
    \/ \E i \in 1..Len(pending) : UmiPy_get_balance_resume(i)

\* The wallet operations of the two clients, a restored wallet being kept,
\* with signing and a network call in between.
SpecWallet == Init /\ [][NextWallet]_vars

(***************************************************************************)
(* The properties.                                                         *)
(***************************************************************************)
Verified == last.op = "sign_verify"

\* The arguments of the sign_verify call that ended last.
VerifiedSignature == last.args[1]
VerifiedMessage == last.args[2]
VerifiedAddress == last.args[3]

\* C1: signature round trip.  sign_verify on the text sign_message returned
\* for a key and a message, on that message (the empty one included) and an
\* address of the key's public key, returns True.
C1_RoundTrip ==
    Verified =>
        \A k \in KeyIds, message \in Messages, prefix \in Prefixes :
            (/\ VerifiedSignature = sign_message(PrivateKey(k), message)
             /\ VerifiedMessage = message
             /\ VerifiedAddress = AddressOf(prefix, PublicKey(k)))
            => last.outcome = Ok(TRUE)

\* C2: sign_verify never raises on attacker-supplied input.  For an address
\* that decodes to a public key and a signature text that is well-formed
\* base64, of any length and content, the call returns True or False.
C2_VerifyNeverRaises ==
    (/\ Verified
     /\ to_public_key(VerifiedAddress).ok
     /\ b64decode(VerifiedSignature).ok)
    => last.outcome.ok

\* b is a with exactly one byte changed.
OneByteChanged(a, b) ==
    /\ Len(a) = Len(b)
    /\ Cardinality({i \in 1..Len(a) : a[i] # b[i]}) = 1

\* C3: tamper rejection.  With s the text sign_message returned for a key
\* and a message, sign_verify against an address of the key returns False
\* (it does not raise) on s with any other message, and on the message with
\* a signature that differs from the decoded s in one byte.
C3_TamperRejected ==
    Verified =>
        \A k \in KeyIds, message \in Messages, prefix \in Prefixes :
            LET s == sign_message(PrivateKey(k), message)
                received == b64decode(VerifiedSignature)
            IN  VerifiedAddress = AddressOf(prefix, PublicKey(k)) =>
                    /\ (VerifiedSignature = s /\ VerifiedMessage # message)
                       => last.outcome = Ok(FALSE)
                    /\ (/\ received.ok
                        /\ OneByteChanged(received.val, b64decode(s).val)
                        /\ VerifiedMessage = message)
                       => last.outcome = Ok(FALSE)

\* A signature with one byte changed was verified against the signed message
\* and the signer's address, and was rejected.
C3_Witness ==
    /\ Verified
    /\ last.outcome = Ok(FALSE)
    /\ \E k \in KeyIds :
          /\ VerifiedAddress = AddressOf("umi", PublicKey(k))
          /\ Len(VerifiedMessage) > 0
          /\ b64decode(VerifiedSignature).ok
          /\ OneByteChanged(b64decode(VerifiedSignature).val,
                            Detached(str_encode(VerifiedMessage), k))

\* C4: sign_message returns a detached signature.  For every key and every
\* message, the empty one included, the text returned is the base64 encoding
\* of exactly the 64 signature bytes, with nothing of the message after them.
C4_DetachedSignature ==
    last.op = "sign_message" =>
        LET signature == Detached(str_encode(last.args[2]), last.args[1].sk)
            returned == b64decode(last.outcome.val)
        IN  /\ last.outcome.val = b64encode(signature)
            /\ returned.ok
            /\ Len(returned.val) = crypto_sign_BYTES
            /\ returned.val = signature

\* C8: soundness of sign_verify.  It returns True only if the decoded
\* signature is exactly 64 bytes long and is the signature, under the public
\* key of the address, of exactly the UTF-8 bytes of original_message.
C8_VerifySound ==
    (Verified /\ last.outcome = Ok(TRUE)) =>
        LET received == b64decode(VerifiedSignature)
            public_key == to_public_key(VerifiedAddress)
        IN  /\ received.ok
            /\ public_key.ok
            /\ Len(received.val) = crypto_sign_BYTES
            /\ public_key.val.pk \in KeyIds
            /\ received.val = Detached(str_encode(VerifiedMessage), public_key.val.pk)

\* sign_verify returned True.
C8_Witness ==
    /\ Verified
    /\ last.outcome = Ok(TRUE)
    /\ Len(VerifiedMessage) > 0

Sends == {"send", "send_addresses"}

\* The target address and the amount of a send or send_addresses call.
TargetOf(call) == call.args[3]
AmountOf(call) == call.args[4]

Raised(call, e) == ~call.outcome.ok /\ call.outcome.exc = e

\* C5: fail fast on send.  send and send_addresses raise InvalidAddressError
\* on a target address that does not decode and InvalidAmountError on an
\* amount that is not positive or exceeds the field, with nothing signed and
\* no request issued; a call that issues a request issues the one POST to
\* /api/mempool, after the transfer was built and signed.
C5_FailFast ==
    /\ last.op \in Sends =>
          /\ ~decode(TargetOf(last)).ok => Raised(last, "InvalidAddressError")
          /\ (decode(TargetOf(last)).ok /\ (AmountOf(last) < 1 \/ AmountOf(last) > MaxAmount))
             => Raised(last, "InvalidAmountError")
          /\ ~last.outcome.ok =>
                /\ last.reqs = <<>>
                /\ \A j \in 1..Len(last.steps) : last.steps[j] \notin {"sign", "POST"}
          /\ last.reqs # <<>> =>
                /\ Len(last.reqs) = 1
                /\ last.reqs[1].method = "POST" /\ last.reqs[1].path = "/api/mempool"
                /\ last.steps = <<"decode", "build", "sign", "POST">>
    /\ \A i \in 1..Len(pending) :
          pending[i].op \in Sends =>
              /\ Len(pending[i].reqs) = 1
              /\ pending[i].reqs[1].method = "POST"
              /\ pending[i].steps = <<"decode", "build", "sign", "POST">>
              /\ decode(TargetOf(pending[i])).ok
              /\ AmountOf(pending[i]) \in 1..MaxAmount

\* A send failed on the amount past the largest one without a request, while
\* a send_addresses call waits for the answer to its POST.
C5_Witness ==
    /\ last.op = "send"
    /\ AmountOf(last) = MaxAmount + 1
    /\ Raised(last, "InvalidAmountError")
    /\ last.reqs = <<>>
    /\ Len(pending) = 1
    /\ pending[1].op = "send_addresses"
    /\ AmountOf(pending[1]) = MaxAmount

FacadeOps == {"generate_wallet", "restore_wallet", "sign_message", "sign_verify"}

\* A step in which a wallet or signing call ended.
FacadeCallEnded ==
    /\ last'.op \in FacadeOps
    /\ \/ last'.op # last.op
       \/ last'.c # last.c
       \/ last'.args # last.args
       \/ last'.outcome # last.outcome

\* C7: generate_wallet, restore_wallet, sign_message and sign_verify issue no
\* request and change no field of a client, whatever calls are pending.
C7_FacadeFrame == [][FacadeCallEnded => (clients' = clients /\ pending' = pending)]_vars

\* A signing call ended while a network call is pending.
C7_Witness ==
    /\ last.op = "sign_verify"
    /\ Len(pending) = 1
    /\ pending[1].pc = "get_transactions again"

\* C9: get_transactions issues one request, and its result is built from the
\* response tested for "error": empty on an error, that response's data
\* otherwise; it never raises.
C9_OneRequest ==
    last.op = "get_transactions" =>
        /\ Len(last.reqs) = 1
        /\ last.outcome = IF "error" \in DOMAIN last.resps[1]
                          THEN Ok(TransactionsResponse(0, <<>>))
                          ELSE TransactionsOf(last.resps[1])
        /\ last.outcome.ok

StatsQueries == {"get_input_transactions", "get_sent_transactions"}

\* C10: on a legend client get_input_transactions and get_sent_transactions
\* raise AttributeError without a request, and get_transaction sends its one
\* request to the node base URL and returns the error or the success
\* response; on any other client get_transaction sends its one request to
\* the stats URL.
C10_Legend ==
    /\ (last.op \in StatsQueries /\ clients.api.is_legend) =>
          Raised(last, "AttributeError") /\ last.reqs = <<>>
    /\ last.op = "get_transaction" =>
          /\ last.outcome.ok
          /\ Len(last.reqs) = 1
          /\ last.reqs[1].base = IF clients.api.is_legend THEN clients.api.base_url
                                 ELSE clients.api.stats_url
          /\ clients.api.is_legend =>
                last.outcome.val = IF "error" \in DOMAIN last.resps[1]
                                   THEN TransactionResponse("error", 500, None)
                                   ELSE TransactionResponse("success", None, last.resps[1].data)
    /\ \A i \in 1..Len(pending) :
          /\ pending[i].op \in StatsQueries => ~clients.api.is_legend
          /\ pending[i].op = "get_transaction" =>
                /\ Len(pending[i].reqs) = 1
                /\ pending[i].reqs[1].base = IF clients.api.is_legend
                                             THEN clients.api.base_url
                                             ELSE clients.api.stats_url

\* On a legend client a statistics query raised AttributeError, and
\* get_transaction waits for the node.
C10_Witness ==
    /\ clients.api.is_legend
    /\ last.op = "get_input_transactions"
    /\ Raised(last, "AttributeError")
    /\ Len(pending) = 1
    /\ pending[1].pc = "_get_legend_transaction_from_node"
    /\ pending[1].reqs[1].base = clients.api.base_url

====
